---- MODULE Spec2Model ----
(***************************************************************************)
(* Host agent of the Wake-on-LAN controller (host-agent/listener.py).      *)
(*                                                                         *)
(* The process reads config/device.yaml, resolves the three module globals *)
(* SECRET_TOKEN, LISTEN_PORT and ALLOWED_IPS, and main() either exits or   *)
(* starts the Flask listener.  Every request is one atomic step: /status,  *)
(* or one of the privileged routes /sleep, /shutdown, /restart, which pass *)
(* the IP gate, then the token gate, then call one power operation.        *)
(*                                                                         *)
(* Strings that are compared or converted (tokens) are sequences of        *)
(* one-character strings, so that equality is character by character.      *)
(***************************************************************************)
EXTENDS Integers, Sequences, FiniteSets

VARIABLES
    pc,             \* "start" | "loaded" | "configured" | "serving" | "exited" | "crashed" | "gate"
    exitCode,       \* exit status of the process, 0 while it runs
    cfgFile,        \* config/device.yaml on disk: [exists, doc]
    system,         \* what platform.system() returns on this host
    CFG,            \* result of load_config()
    SECRET_TOKEN,   \* module global, line 53
    LISTEN_PORT,    \* module global, line 55
    ALLOWED_IPS,    \* module global, line 56
    nreq,           \* requests handled so far
    lastReq,        \* the request handled last: [route, ip, token, raises]; raises: its
                    \* launch of a child process raised
    resp,           \* its response: [code, body]
    invoked,        \* the power operations it called, in order: [op, ok]
    launched,       \* the argv of the child processes it started
    errlog,         \* what it wrote with logger.error
    dispatchCalls,  \* power operations called since startup
    bothPassed,     \* privileged requests since startup whose IP and token were both good
    checked         \* last direct evaluation of _check_token: [done, token, result]

vars == <<pc, exitCode, cfgFile, system, CFG, SECRET_TOKEN, LISTEN_PORT, ALLOWED_IPS,
          nreq, lastReq, resp, invoked, launched, errlog, dispatchCalls, bothPassed,
          checked>>

config == <<SECRET_TOKEN, LISTEN_PORT, ALLOWED_IPS>>

-----------------------------------------------------------------------------
(* Bounds *)

\* Longest token built from Alphabet (the named tokens below are longer).
MaxLen == 1

\* Requests handled in one run.
MaxRequests == 2

-----------------------------------------------------------------------------
(* Input domains *)

Alphabet == {"a", " "}

TokensUpTo(n) == UNION {[1..k -> Alphabet] : k \in 0..n}

abc123 == <<"a", "b", "c", "1", "2", "3">>
abc123sp == <<"a", "b", "c", "1", "2", "3", " ">>
ABC123 == <<"A", "B", "C", "1", "2", "3">>
NoneStr == <<"N", "o", "n", "e">>

\* Token strings a request may carry.
Named == {abc123, abc123sp, ABC123, NoneStr, <<"A">>}
Tokens == TokensUpTo(MaxLen) \cup Named

\* Token strings a config file may give as esp.token.
SecretStrings == {<<>>, <<"a">>, abc123sp}

\* request.args: the token query parameter, present or not.
Missing == [present |-> FALSE, s |-> <<>>]
Given(s) == [present |-> TRUE, s |-> s]
RawTokens == {Missing} \cup {Given(s) : s \in Tokens}

IP1 == "192.168.1.10"
IP2 == "192.168.1.11"
IP3 == "10.0.0.5"
IPs == {IP1, IP2, IP3}

Systems == {"Windows", "Linux", "Darwin", "FreeBSD"}

\* YAML values, all of one record shape: kind, string, integer, list.
YAbsent == [kind |-> "absent", s |-> <<>>, n |-> 0, items |-> <<>>]
YNull == [kind |-> "null", s |-> <<>>, n |-> 0, items |-> <<>>]
YStr(s) == [kind |-> "str", s |-> s, n |-> 0, items |-> <<>>]
YInt(n) == [kind |-> "int", s |-> <<>>, n |-> n, items |-> <<>>]
YSeq(items) == [kind |-> "seq", s |-> <<>>, n |-> 0, items |-> items]

TokenValues == {YAbsent, YNull, YInt(0)} \cup {YStr(s) : s \in SecretStrings}
PortValues == {YAbsent, YInt(9000)}
AllowValues == {YAbsent, YNull, YSeq(<<>>), YSeq(<<IP1>>), YSeq(<<IP1, IP2>>)}

\* The esp and host sections: absent, null, or a mapping.
EspValues ==
    {[kind |-> k, token |-> YAbsent] : k \in {"absent", "null"}}
    \cup {[kind |-> "map", token |-> t] : t \in TokenValues}

HostValues ==
    {[kind |-> k, port |-> YAbsent, allowed_ips |-> YAbsent] : k \in {"absent", "null"}}
    \cup {[kind |-> "map", port |-> p, allowed_ips |-> a] : p \in PortValues, a \in AllowValues}

NoSection == [kind |-> "absent", token |-> YAbsent]
NoHost == [kind |-> "absent", port |-> YAbsent, allowed_ips |-> YAbsent]

\* A document: null (an empty file) or a mapping with the two sections.
NullDoc == [kind |-> "null", esp |-> NoSection, host |-> NoHost]

\* Every esp section with two host sections (no allowlist, an allowlist of
\* one), and every host section with one esp section.
PlainEsp == [kind |-> "map", token |-> YStr(abc123sp)]
PlainHosts == {NoHost, [kind |-> "map", port |-> YAbsent, allowed_ips |-> YSeq(<<IP1>>)]}
Docs ==
    {NullDoc}
    \cup {[kind |-> "map", esp |-> e, host |-> h] : e \in EspValues, h \in PlainHosts}
    \cup {[kind |-> "map", esp |-> PlainEsp, host |-> h] : h \in HostValues}

Files == {[exists |-> FALSE, doc |-> NullDoc]} \cup {[exists |-> TRUE, doc |-> d] : d \in Docs}

-----------------------------------------------------------------------------
(* Helpers of the Python runtime *)

Range(s) == {s[i] : i \in DOMAIN s}

Digit(d) ==
    CASE d = 0 -> "0" [] d = 1 -> "1" [] d = 2 -> "2" [] d = 3 -> "3" [] d = 4 -> "4"
      [] d = 5 -> "5" [] d = 6 -> "6" [] d = 7 -> "7" [] d = 8 -> "8" [] d = 9 -> "9"

RECURSIVE str_int(_)
str_int(n) == IF n < 10 THEN <<Digit(n)>> ELSE str_int(n \div 10) \o <<Digit(n % 10)>>

\* str(v) of a scalar YAML value.
str(v) ==
    CASE v.kind = "str" -> v.s
      [] v.kind = "null" -> NoneStr
      [] v.kind = "int" -> str_int(v.n)

\* dict.get(key, default): the default only when the key is absent.
get(v, default) == IF v.kind = "absent" THEN default ELSE v

\* request.args.get("token", "")
args_get(raw) == IF raw.present THEN raw.s ELSE <<>>

-----------------------------------------------------------------------------
(* Startup: lines 34-56 and main() *)

DefaultPort == 8888

\* The module-level assignments raise AttributeError when .get is called on None.
GlobalsRaise(doc) == doc.kind = "null" \/ doc.esp.kind = "null" \/ doc.host.kind = "null"

\* SECRET_TOKEN = str(CFG.get("esp", {}).get("token", ""))
ResolveToken(doc) ==
    IF doc.esp.kind = "absent" THEN str(YStr(<<>>))
    ELSE str(get(doc.esp.token, YStr(<<>>)))

\* LISTEN_PORT = int(HOST_CFG.get("port", 8888))
ResolvePort(doc) ==
    IF doc.host.kind = "absent" THEN DefaultPort
    ELSE get(doc.host.port, YInt(DefaultPort)).n

\* ALLOWED_IPS = HOST_CFG.get("allowed_ips", []) or []
ResolveAllowed(doc) ==
    IF doc.host.kind = "absent" THEN <<>>
    ELSE LET v == get(doc.host.allowed_ips, YSeq(<<>>))
         IN IF v.kind = "null" \/ Len(v.items) = 0 THEN <<>> ELSE v.items

NoReq == [route |-> "none", ip |-> IP1, token |-> Missing, raises |-> FALSE]
NoResp == [code |-> 0, body |-> [status |-> "none"]]
NotChecked == [done |-> FALSE, token |-> <<>>, result |-> FALSE]

Init ==
    /\ pc = "start"
    /\ exitCode = 0
    /\ cfgFile \in Files
    /\ system \in Systems
    /\ CFG = NullDoc
    /\ SECRET_TOKEN = <<>>
    /\ LISTEN_PORT = 0
    /\ ALLOWED_IPS = <<>>
    /\ nreq = 0
    /\ lastReq = NoReq
    /\ resp = NoResp
    /\ invoked = <<>>
    /\ launched = <<>>
    /\ errlog = <<>>
    /\ dispatchCalls = 0
    /\ bothPassed = 0
    /\ checked = NotChecked

requestState == <<nreq, lastReq, resp, invoked, launched, errlog, dispatchCalls, bothPassed>>

\* load_config(): sys.exit(1) when the file is absent, else the parsed document.
load_config ==
    /\ pc = "start"
    /\ IF ~cfgFile.exists
       THEN /\ pc' = "exited"
            /\ exitCode' = 1
            /\ CFG' = CFG
       ELSE /\ pc' = "loaded"
            /\ exitCode' = exitCode
            /\ CFG' = cfgFile.doc
    /\ UNCHANGED <<cfgFile, system, config, requestState, checked>>

\* Lines 53-56: the three globals, or an uncaught exception (exit status 1).
module_globals ==
    /\ pc = "loaded"
    /\ IF GlobalsRaise(CFG)
       THEN /\ pc' = "crashed"
            /\ exitCode' = 1
            /\ UNCHANGED config
       ELSE /\ pc' = "configured"
            /\ exitCode' = exitCode
            /\ SECRET_TOKEN' = ResolveToken(CFG)
            /\ LISTEN_PORT' = ResolvePort(CFG)
            /\ ALLOWED_IPS' = ResolveAllowed(CFG)
    /\ UNCHANGED <<cfgFile, system, CFG, requestState, checked>>

\* main() without its check of SECRET_TOKEN.
main_no_check ==
    /\ pc = "configured"
    /\ pc' = "serving"
    /\ exitCode' = exitCode
    /\ UNCHANGED <<cfgFile, system, CFG, config, requestState, checked>>

\* main(): sys.exit(1) on an empty token, else app.run binds the listener.
main ==
    /\ pc = "configured"
    /\ IF Len(SECRET_TOKEN) = 0
       THEN /\ pc' = "exited"
            /\ exitCode' = 1
       ELSE /\ pc' = "serving"
            /\ exitCode' = exitCode
    /\ UNCHANGED <<cfgFile, system, CFG, config, requestState, checked>>

-----------------------------------------------------------------------------
(* The two gates, lines 68-75 *)

\* _authorized_client without the empty-allowlist case.
_authorized_client_strict(ip) == \E i \in DOMAIN ALLOWED_IPS : ALLOWED_IPS[i] = ip

\* _authorized_client(ip)
_authorized_client(ip) ==
    IF Len(ALLOWED_IPS) = 0 THEN TRUE
    ELSE \E i \in DOMAIN ALLOWED_IPS : ALLOWED_IPS[i] = ip

IsPrefix(p, t) == Len(p) <= Len(t) /\ SubSeq(t, 1, Len(p)) = p

RECURSIVE rstrip(_)
rstrip(t) == IF Len(t) > 0 /\ t[Len(t)] = " " THEN rstrip(SubSeq(t, 1, Len(t) - 1)) ELSE t

RECURSIVE lstrip(_)
lstrip(t) == IF Len(t) > 0 /\ t[1] = " " THEN lstrip(Tail(t)) ELSE t

strip(t) == lstrip(rstrip(t))

\* _check_token with SECRET_TOKEN.startswith(req_token) for the comparison.
_check_token_startswith(req_token) == Len(SECRET_TOKEN) > 0 /\ IsPrefix(req_token, SECRET_TOKEN)

\* _check_token comparing the two strings after strip().
_check_token_stripped(req_token) ==
    Len(SECRET_TOKEN) > 0 /\ strip(req_token) = strip(SECRET_TOKEN)

\* _check_token(req_token)
_check_token(req_token) == Len(SECRET_TOKEN) > 0 /\ req_token = SECRET_TOKEN

-----------------------------------------------------------------------------
(* The power operations, lines 126-178 *)

\* What one call of a power operation did: its return value, the child
\* processes it started, the errors it logged.
Returned(ok) == [ok |-> ok, launched |-> <<>>, logged |-> <<>>]

\* subprocess.Popen(argv) inside try/except Exception: the launch either
\* starts the child and the operation returns True, or raises, and the
\* handler logs msg and returns False.
Popen(argv, raises, msg) ==
    IF raises THEN [ok |-> FALSE, launched |-> <<>>, logged |-> <<msg>>]
    ELSE [ok |-> TRUE, launched |-> <<argv>>, logged |-> <<>>]

PsSuspend == "(Add-Type -AssemblyName System.Windows.Forms); [System.Windows.Forms.Application]::SetSuspendState('Suspend',$false,$false)"

\* shutdown_computer whose Linux branch launches the reboot command.
shutdown_computer_reboot(raises) ==
    IF system = "Windows" THEN Popen(<<"shutdown", "/s", "/t", "0">>, raises, "shutdown failed")
    ELSE IF system = "Linux" THEN Popen(<<"systemctl", "reboot">>, raises, "shutdown failed")
    ELSE IF system = "Darwin" THEN Popen(<<"sudo", "shutdown", "-h", "now">>, raises, "shutdown failed")
    ELSE Returned(FALSE)

shutdown_computer(raises) ==
    IF system = "Windows" THEN Popen(<<"shutdown", "/s", "/t", "0">>, raises, "shutdown failed")
    ELSE IF system = "Linux" THEN Popen(<<"systemctl", "poweroff">>, raises, "shutdown failed")
    ELSE IF system = "Darwin" THEN Popen(<<"sudo", "shutdown", "-h", "now">>, raises, "shutdown failed")
    ELSE Returned(FALSE)

\* sleep_computer that returns True on an unrecognized system.
sleep_computer_else_true(raises) ==
    IF system = "Windows" THEN Popen(<<"powershell", "-NoProfile", "-Command", PsSuspend>>, raises, "sleep failed")
    ELSE IF system = "Linux" THEN Popen(<<"systemctl", "suspend">>, raises, "sleep failed")
    ELSE IF system = "Darwin" THEN Popen(<<"pmset", "sleepnow">>, raises, "sleep failed")
    ELSE Returned(TRUE)

sleep_computer(raises) ==
    IF system = "Windows" THEN Popen(<<"powershell", "-NoProfile", "-Command", PsSuspend>>, raises, "sleep failed")
    ELSE IF system = "Linux" THEN Popen(<<"systemctl", "suspend">>, raises, "sleep failed")
    ELSE IF system = "Darwin" THEN Popen(<<"pmset", "sleepnow">>, raises, "sleep failed")
    ELSE Returned(FALSE)

restart_computer(raises) ==
    IF system = "Windows" THEN Popen(<<"shutdown", "/r", "/t", "0">>, raises, "restart failed")
    ELSE IF system = "Linux" THEN Popen(<<"systemctl", "reboot">>, raises, "restart failed")
    ELSE IF system = "Darwin" THEN Popen(<<"sudo", "shutdown", "-r", "now">>, raises, "restart failed")
    ELSE Returned(FALSE)

-----------------------------------------------------------------------------
(* The routes, lines 78-123 *)

Epoch == 1700000000

\* int(time.time()): the clock moves on by one second per request handled.
time_time == Epoch + nreq

\* platform.node(), platform.version(): fixed for the host.
platform_node == "host-pc"
platform_version == "10.0.19045"

ErrorBody(message) == [status |-> "error", message |-> message]

\* The requests that satisfy both gates as the configuration states them.
IpListed(ip) == ip \in Range(ALLOWED_IPS)
IpGatePasses(ip) == ALLOWED_IPS = <<>> \/ IpListed(ip)
TokenGatePasses(raw) == raw.present /\ SECRET_TOKEN # <<>> /\ raw.s = SECRET_TOKEN

\* One request handled: the response goes out and the run's record moves on.
\* raises: whether the launch of the child process raised; calls: the power
\* operations the handler called; r: what the last one did.
Handled(route, ip, raw, raises, code, body, calls, r) ==
    /\ nreq' = nreq + 1
    /\ lastReq' = [route |-> route, ip |-> ip, token |-> raw, raises |-> raises]
    /\ resp' = [code |-> code, body |-> body]
    /\ invoked' = calls
    /\ launched' = r.launched
    /\ errlog' = r.logged
    /\ dispatchCalls' = dispatchCalls + Len(calls)
    /\ bothPassed' = bothPassed
            + (IF route # "status" /\ IpGatePasses(ip) /\ TokenGatePasses(raw) THEN 1 ELSE 0)
    /\ UNCHANGED <<pc, exitCode, cfgFile, system, CFG, checked>>

\* One call of a power operation and the value it returned.
Call(op, r) == [op |-> op, ok |-> r.ok]

Accepting == pc = "serving" /\ nreq < MaxRequests

\* /status behind the token gate.
status_gated(ip, raw) ==
    /\ Accepting
    /\ UNCHANGED config
    /\ IF ~_check_token(args_get(raw))
       THEN Handled("status", ip, raw, FALSE, 401, ErrorBody("Unauthorized"),
                    <<>>, Returned(FALSE))
       ELSE Handled("status", ip, raw, FALSE, 200,
                    [status |-> "running", hostname |-> platform_node, os |-> system,
                     os_version |-> platform_version, port |-> LISTEN_PORT,
                     uptime |-> time_time],
                    <<>>, Returned(TRUE))

\* GET /status
status(ip, raw) ==
    /\ Accepting
    /\ UNCHANGED config
    /\ Handled("status", ip, raw, FALSE, 200,
               [status |-> "running", hostname |-> platform_node, os |-> system,
                os_version |-> platform_version, port |-> LISTEN_PORT,
                uptime |-> time_time],
               <<>>, Returned(TRUE))

\* The response of a privileged route from the result of its power operation.
Outcome(ok) == IF ok THEN [code |-> 200, body |-> [status |-> "success"]]
               ELSE [code |-> 500, body |-> [status |-> "error"]]

\* /sleep that adds the caller of an authorized request to ALLOWED_IPS.
route_sleep_learns_ip(ip, raw) ==
    /\ Accepting
    /\ LET client_ip == ip
           token == args_get(raw)
       IN IF ~_authorized_client(client_ip)
          THEN /\ UNCHANGED config
               /\ Handled("sleep", ip, raw, FALSE, 403, ErrorBody("Forbidden: IP not allowed"),
                          <<>>, Returned(FALSE))
          ELSE IF ~_check_token(token)
          THEN /\ UNCHANGED config
               /\ Handled("sleep", ip, raw, FALSE, 401, ErrorBody("Unauthorized"),
                          <<>>, Returned(FALSE))
          ELSE /\ ALLOWED_IPS' = Append(ALLOWED_IPS, client_ip)
               /\ UNCHANGED <<SECRET_TOKEN, LISTEN_PORT>>
               /\ \E raises \in BOOLEAN :
                    LET r == sleep_computer(raises)
                    IN Handled("sleep", ip, raw, raises, Outcome(r.ok).code, Outcome(r.ok).body,
                               <<Call("sleep_computer", r)>>, r)

\* GET /sleep?token=...
route_sleep(ip, raw) ==
    /\ Accepting
    /\ UNCHANGED config
    /\ LET client_ip == ip
           token == args_get(raw)
       IN IF ~_authorized_client(client_ip)
          THEN Handled("sleep", ip, raw, FALSE, 403, ErrorBody("Forbidden: IP not allowed"),
                       <<>>, Returned(FALSE))
          ELSE IF ~_check_token(token)
          THEN Handled("sleep", ip, raw, FALSE, 401, ErrorBody("Unauthorized"),
                       <<>>, Returned(FALSE))
          ELSE \E raises \in BOOLEAN :
               LET r == sleep_computer(raises)
               IN Handled("sleep", ip, raw, raises, Outcome(r.ok).code, Outcome(r.ok).body,
                          <<Call("sleep_computer", r)>>, r)

\* /shutdown with the token gate ahead of the IP gate.
route_shutdown_token_first(ip, raw) ==
    /\ Accepting
    /\ UNCHANGED config
    /\ LET client_ip == ip
           token == args_get(raw)
       IN IF ~_check_token(token)
          THEN Handled("shutdown", ip, raw, FALSE, 401, ErrorBody("Unauthorized"),
                       <<>>, Returned(FALSE))
          ELSE IF ~_authorized_client(client_ip)
          THEN Handled("shutdown", ip, raw, FALSE, 403, ErrorBody("Forbidden: IP not allowed"),
                       <<>>, Returned(FALSE))
          ELSE \E raises \in BOOLEAN :
               LET r == shutdown_computer(raises)
               IN Handled("shutdown", ip, raw, raises, Outcome(r.ok).code, Outcome(r.ok).body,
                          <<Call("shutdown_computer", r)>>, r)

\* GET /shutdown?token=...
route_shutdown(ip, raw) ==
    /\ Accepting
    /\ UNCHANGED config
    /\ LET client_ip == ip
           token == args_get(raw)
       IN IF ~_authorized_client(client_ip)
          THEN Handled("shutdown", ip, raw, FALSE, 403, ErrorBody("Forbidden: IP not allowed"),
                       <<>>, Returned(FALSE))
          ELSE IF ~_check_token(token)
          THEN Handled("shutdown", ip, raw, FALSE, 401, ErrorBody("Unauthorized"),
                       <<>>, Returned(FALSE))
          ELSE \E raises \in BOOLEAN :
               LET r == shutdown_computer(raises)
               IN Handled("shutdown", ip, raw, raises, Outcome(r.ok).code, Outcome(r.ok).body,
                          <<Call("shutdown_computer", r)>>, r)

\* /restart without the token gate.
route_restart_no_token(ip, raw) ==
    /\ Accepting
    /\ UNCHANGED config
    /\ LET client_ip == ip
       IN IF ~_authorized_client(client_ip)
          THEN Handled("restart", ip, raw, FALSE, 403, ErrorBody("Forbidden: IP not allowed"),
                       <<>>, Returned(FALSE))
          ELSE \E raises \in BOOLEAN :
               LET r == restart_computer(raises)
               IN Handled("restart", ip, raw, raises, Outcome(r.ok).code, Outcome(r.ok).body,
                          <<Call("restart_computer", r)>>, r)

\* GET /restart?token=...
route_restart(ip, raw) ==
    /\ Accepting
    /\ UNCHANGED config
    /\ LET client_ip == ip
           token == args_get(raw)
       IN IF ~_authorized_client(client_ip)
          THEN Handled("restart", ip, raw, FALSE, 403, ErrorBody("Forbidden: IP not allowed"),
                       <<>>, Returned(FALSE))
          ELSE IF ~_check_token(token)
          THEN Handled("restart", ip, raw, FALSE, 401, ErrorBody("Unauthorized"),
                       <<>>, Returned(FALSE))
          ELSE \E raises \in BOOLEAN :
               LET r == restart_computer(raises)
               IN Handled("restart", ip, raw, raises, Outcome(r.ok).code, Outcome(r.ok).body,
                          <<Call("restart_computer", r)>>, r)

Startup == load_config \/ module_globals \/ main

Request ==
    \E ip \in IPs, raw \in RawTokens :
        \/ status(ip, raw)
        \/ route_sleep(ip, raw)
        \/ route_shutdown(ip, raw)
        \/ route_restart(ip, raw)

Next == Startup \/ Request

Spec == Init /\ [][Next]_vars

-----------------------------------------------------------------------------
(* _check_token applied directly, over every configured secret *)

GateTokens == TokensUpTo(MaxLen + 1) \cup Named

InitToken ==
    /\ pc = "gate"
    /\ exitCode = 0
    /\ cfgFile = [exists |-> FALSE, doc |-> NullDoc]
    /\ system = "Linux"
    /\ CFG = NullDoc
    /\ SECRET_TOKEN \in GateTokens
    /\ LISTEN_PORT = DefaultPort
    /\ ALLOWED_IPS = <<>>
    /\ nreq = 0
    /\ lastReq = NoReq
    /\ resp = NoResp
    /\ invoked = <<>>
    /\ launched = <<>>
    /\ errlog = <<>>
    /\ dispatchCalls = 0
    /\ bothPassed = 0
    /\ checked = NotChecked

check_token(req_token) ==
    /\ pc = "gate"
    /\ checked' = [done |-> TRUE, token |-> req_token, result |-> _check_token(req_token)]
    /\ UNCHANGED <<pc, exitCode, cfgFile, system, CFG, config, requestState>>

NextToken == \E req_token \in GateTokens : check_token(req_token)

SpecToken == InitToken /\ [][NextToken]_vars

-----------------------------------------------------------------------------
(* Properties *)

Privileged == {"sleep", "shutdown", "restart"}
Recognized == {"Windows", "Linux", "Darwin"}

Forbidden == [code |-> 403, body |-> [status |-> "error", message |-> "Forbidden: IP not allowed"]]
Unauthorized == [code |-> 401, body |-> [status |-> "error", message |-> "Unauthorized"]]
Success == [code |-> 200, body |-> [status |-> "success"]]
Failure == [code |-> 500, body |-> [status |-> "error"]]

\* The last request came from an IP outside a non-empty allowlist.
IpRefused == ALLOWED_IPS # <<>> /\ \A i \in DOMAIN ALLOWED_IPS : ALLOWED_IPS[i] # lastReq.ip

\* The last request came from an IP the allowlist admits.
IpAdmitted == ALLOWED_IPS = <<>> \/ \E i \in DOMAIN ALLOWED_IPS : ALLOWED_IPS[i] = lastReq.ip

\* Two strings are the same length and agree at every position.
SameString(a, b) == Len(a) = Len(b) /\ \A i \in 1..Len(a) : a[i] = b[i]

\* The last request carried exactly the configured secret.
TokenExact == lastReq.token.present /\ SameString(lastReq.token.s, SECRET_TOKEN)

\* C1: on a privileged route, a caller outside a non-empty allowlist gets 403
\* "Forbidden: IP not allowed" whatever its token, and no power operation runs.
C1_ForbiddenWhateverToken ==
    (lastReq.route \in Privileged /\ IpRefused) => (resp = Forbidden /\ invoked = <<>>)

C1_Witness ==
    /\ lastReq.route = "shutdown"
    /\ IpRefused
    /\ TokenExact
    /\ resp.code = 403

\* C2: on a privileged route, a caller that passes the IP gate with a missing,
\* empty or mismatched token gets 401 "Unauthorized".
C2_UnauthorizedOnBadToken ==
    (/\ lastReq.route \in Privileged
     /\ IpAdmitted
     /\ \/ ~lastReq.token.present
        \/ lastReq.token.s = <<>>
        \/ ~SameString(lastReq.token.s, SECRET_TOKEN))
    => (resp = Unauthorized /\ invoked = <<>>)

C2_Witness ==
    /\ lastReq.route = "sleep"
    /\ IpAdmitted
    /\ ALLOWED_IPS # <<>>
    /\ ~lastReq.token.present
    /\ resp.code = 401

\* C3: a power operation runs only for a request that passed both gates: none
\* runs for a request answered 403 or 401, and the operations called never
\* outnumber the requests with an admitted IP and the exact token.
C3_DispatchOnlyAfterBothGates ==
    /\ resp.code \in {401, 403} => (invoked = <<>> /\ launched = <<>>)
    /\ invoked # <<>> => (IpAdmitted /\ TokenExact)
    /\ dispatchCalls <= bothPassed

C3_Witness ==
    /\ nreq = 2
    /\ dispatchCalls = 1
    /\ resp.code = 401

\* C4: a privileged request with an admitted IP and the exact token calls
\* exactly one power operation, and gets 200 {status: success} when the OS is
\* recognized and the launch did not raise.
C4_AuthorizedDispatchesOnce ==
    (lastReq.route \in Privileged /\ IpAdmitted /\ TokenExact)
    => /\ Len(invoked) = 1
       /\ (system \in Recognized /\ ~lastReq.raises) => resp = Success

C4_Witness ==
    /\ lastReq.route = "sleep"
    /\ ALLOWED_IPS = <<>>
    /\ TokenExact
    /\ Len(invoked) = 1
    /\ resp.code = 200

\* C5: _check_token is true exactly when the secret is non-empty and the token
\* equals it character for character: no trimming, no case folding, and
\* nothing passes an empty secret.
C5_TokenGateExact ==
    checked.done =>
        /\ checked.result <=> (SECRET_TOKEN # <<>> /\ SameString(checked.token, SECRET_TOKEN))
        /\ (SECRET_TOKEN = abc123sp /\ checked.token = abc123) => ~checked.result
        /\ (SECRET_TOKEN = abc123 /\ checked.token = ABC123) => ~checked.result
        /\ SECRET_TOKEN = <<>> => ~checked.result

C5_Witness ==
    /\ checked.done
    /\ SECRET_TOKEN = abc123sp
    /\ checked.token = abc123
    /\ ~checked.result

\* C6: the listener never runs with the config file absent or the secret
\* empty; in both cases the process is past startup only as exited, status 1.
C6_NoListenerWithoutConfig ==
    /\ pc = "serving" => (cfgFile.exists /\ SECRET_TOKEN # <<>>)
    /\ (~cfgFile.exists /\ pc # "start") => (pc = "exited" /\ exitCode = 1)
    /\ (SECRET_TOKEN = <<>> /\ pc \notin {"start", "loaded", "configured"})
           => (pc \in {"exited", "crashed"} /\ exitCode = 1)
    /\ pc \in {"exited", "crashed"} => nreq = 0

C6_Witness ==
    /\ cfgFile.exists
    /\ CFG.kind = "map"
    /\ CFG.esp.kind = "map"
    /\ SECRET_TOKEN = <<>>
    /\ pc = "exited"
    /\ exitCode = 1

StatusFields == {"status", "hostname", "os", "os_version", "port", "uptime"}

\* C7 as stated: /status answers 200 with five fields whatever the token, the
\* caller and the allowlist, and launches nothing.
C7_StatusFiveFields ==
    lastReq.route = "status" =>
        /\ resp.code = 200
        /\ Cardinality(DOMAIN resp.body) = 5
        /\ invoked = <<>> /\ launched = <<>>

\* C7: /status answers 200 with the six fields status, hostname, os,
\* os_version, port and uptime whatever the token, the caller and the
\* allowlist, and launches nothing.
C7_StatusSixFields ==
    lastReq.route = "status" =>
        /\ resp.code = 200
        /\ DOMAIN resp.body = StatusFields
        /\ resp.body.status = "running"
        /\ resp.body.os = system
        /\ resp.body.port = LISTEN_PORT
        /\ invoked = <<>> /\ launched = <<>>

C7_Witness ==
    /\ lastReq.route = "status"
    /\ IpRefused
    /\ ~lastReq.token.present
    /\ resp.code = 200

\* C8: a power operation returns true exactly when the OS is Windows, Linux or
\* Darwin and the launch did not raise; a launch that raised is logged; the
\* response is 200 {status: success} for true and 500 {status: error} for false.
C8_OperationResult ==
    \A i \in DOMAIN invoked :
        /\ invoked[i].ok <=> (system \in Recognized /\ ~lastReq.raises)
        /\ invoked[i].ok <=> launched # <<>>
        /\ (system \in Recognized /\ lastReq.raises) => errlog # <<>>
        /\ resp = IF invoked[i].ok THEN Success ELSE Failure

C8_Witness ==
    /\ invoked # <<>>
    /\ system = "Darwin"
    /\ lastReq.raises
    /\ resp = Failure
    /\ errlog # <<>>

\* C9: once requests are being handled, the three configuration values are the
\* ones resolved from the config file at startup.
C9_ConfigReadOnly ==
    nreq > 0 =>
        /\ CFG = cfgFile.doc
        /\ SECRET_TOKEN = ResolveToken(cfgFile.doc)
        /\ LISTEN_PORT = ResolvePort(cfgFile.doc)
        /\ ALLOWED_IPS = ResolveAllowed(cfgFile.doc)

C9_Witness ==
    /\ nreq = 2
    /\ resp.code = 200
    /\ lastReq.route = "sleep"
    /\ ALLOWED_IPS = <<IP1>>

\* The command each route may launch on each recognized OS.
OwnCommand(route, os) ==
    CASE route = "sleep" /\ os = "Windows" -> <<"powershell", "-NoProfile", "-Command", PsSuspend>>
      [] route = "sleep" /\ os = "Linux" -> <<"systemctl", "suspend">>
      [] route = "sleep" /\ os = "Darwin" -> <<"pmset", "sleepnow">>
      [] route = "shutdown" /\ os = "Windows" -> <<"shutdown", "/s", "/t", "0">>
      [] route = "shutdown" /\ os = "Linux" -> <<"systemctl", "poweroff">>
      [] route = "shutdown" /\ os = "Darwin" -> <<"sudo", "shutdown", "-h", "now">>
      [] route = "restart" /\ os = "Windows" -> <<"shutdown", "/r", "/t", "0">>
      [] route = "restart" /\ os = "Linux" -> <<"systemctl", "reboot">>
      [] route = "restart" /\ os = "Darwin" -> <<"sudo", "shutdown", "-r", "now">>

OwnOperation(route) ==
    CASE route = "sleep" -> "sleep_computer"
      [] route = "shutdown" -> "shutdown_computer"
      [] route = "restart" -> "restart_computer"

\* C10: a privileged route calls only its own power operation and launches
\* only that operation's command for the host OS.
C10_OwnActionOnly ==
    lastReq.route \in Privileged =>
        /\ \A i \in DOMAIN invoked : invoked[i].op = OwnOperation(lastReq.route)
        /\ \A i \in DOMAIN launched :
              system \in Recognized /\ launched[i] = OwnCommand(lastReq.route, system)
        /\ Len(launched) <= 1

C10_Witness ==
    /\ lastReq.route = "shutdown"
    /\ system = "Linux"
    /\ launched = <<(<<"systemctl", "poweroff">>)>>
    /\ resp.code = 200

====
